---- MODULE Spec2Model ----
(***************************************************************************)
(* A model of Wether_Analyzer/weather_analysis.py: one top-to-bottom run   *)
(* of the script (load, clean, statistics and resampling, plots, grouping, *)
(* export) over a bounded family of input tables.                          *)
(*                                                                         *)
(* Numbers are exact rationals <<n, d>> with d > 0 in lowest terms; the    *)
(* float NaN is <<0, 0>>.  A raw CSV cell is a tuple: <<>> is the empty    *)
(* cell, <<n>> a numeric cell, <<y, m, d>> a date written year-month-day.  *)
(* A parsed date is <<t>>, t the day count since 2020-01-01, and NaT is    *)
(* <<>>.                                                                   *)
(***************************************************************************)
EXTENDS Integers, Sequences, FiniteSets

VARIABLES pc, err, source, df, stats, daily, monthly, yearly,
          grouped_month, season_group, defined, files, exported, report

vars == <<pc, err, source, df, stats, daily, monthly, yearly,
          grouped_month, season_group, defined, files, exported, report>>

\* Largest number of data rows of an input table.
MaxRows == 3

----------------------------------------------------------------------------
\* Configuration (lines 16-19) and the files the run writes.

DATE_COL == "Date.Full"
TEMP_COL == "Data.Temperature.Avg Temp"
RAIN_COL == "Data.Precipitation"
\* A source column the script does not use.
EXTRA_COL == "Station.City"

cols_needed == {DATE_COL, TEMP_COL, RAIN_COL}

DAILY_PNG == "daily_temperature_line.png"
MONTHLY_PNG == "monthly_rainfall_bar.png"
COMBINED_PNG == "combined_temp_rain.png"
CLEAN_CSV == "weather_cleaned.csv"
REPORT_TXT == "summary_report.txt"

ChartFiles == {DAILY_PNG, MONTHLY_PNG, COMBINED_PNG}
FinalFiles == {CLEAN_CSV, REPORT_TXT}
OutputFiles == ChartFiles \cup FinalFiles

----------------------------------------------------------------------------
\* Exact arithmetic standing for the floats of pandas and numpy.

NaN == <<0, 0>>
IsNaN(x) == x[2] = 0

RECURSIVE GCD(_, _)
GCD(a, b) == IF b = 0 THEN a ELSE GCD(b, a % b)

Abs(n) == IF n < 0 THEN -n ELSE n

Rat(n, d) == LET g == GCD(Abs(n), d) IN <<n \div g, d \div g>>

Zero == <<0, 1>>

\* IEEE addition: NaN absorbs.
RAdd(a, b) ==
    IF IsNaN(a) \/ IsNaN(b) THEN NaN
    ELSE Rat(a[1] * b[2] + b[1] * a[2], a[2] * b[2])

\* Division by a count; 0/0 and NaN/k are NaN.
RDivInt(a, k) == IF IsNaN(a) \/ k = 0 THEN NaN ELSE Rat(a[1], a[2] * k)

RLess(a, b) == a[1] * b[2] < b[1] * a[2]

RECURSIVE SeqSum(_)
SeqSum(s) == IF s = <<>> THEN Zero ELSE RAdd(Head(s), SeqSum(Tail(s)))

RECURSIVE SeqMin(_)
SeqMin(s) ==
    IF Len(s) = 1 THEN Head(s)
    ELSE LET m == SeqMin(Tail(s)) IN IF RLess(m, Head(s)) THEN m ELSE Head(s)

RECURSIVE SeqMax(_)
SeqMax(s) ==
    IF Len(s) = 1 THEN Head(s)
    ELSE LET m == SeqMax(Tail(s)) IN IF RLess(Head(s), m) THEN m ELSE Head(s)

NotNaN(x) == ~IsNaN(x)
HasNaN(s) == \E i \in 1..Len(s) : IsNaN(s[i])

\* numpy reductions (lines 71-78): a NaN in the array makes the result NaN;
\* the mean of an empty array is NaN.  np.min and np.max of an empty array
\* raise instead of returning, which is the guard of StatsFail.
np_mean(a) == RDivInt(SeqSum(a), Len(a))
np_min(a) == IF HasNaN(a) THEN NaN ELSE SeqMin(a)
np_max(a) == IF HasNaN(a) THEN NaN ELSE SeqMax(a)

\* pandas reductions (Series.mean, and the "mean", "min", "max", "sum" of
\* agg): NaN is skipped; with nothing left the mean, min and max are NaN
\* and the sum is 0.
pd_mean(s) == LET v == SelectSeq(s, NotNaN) IN RDivInt(SeqSum(v), Len(v))
pd_min(s) == LET v == SelectSeq(s, NotNaN) IN IF v = <<>> THEN NaN ELSE SeqMin(v)
pd_max(s) == LET v == SelectSeq(s, NotNaN) IN IF v = <<>> THEN NaN ELSE SeqMax(v)
pd_sum(s) == SeqSum(SelectSeq(s, NotNaN))

----------------------------------------------------------------------------
\* The calendar behind pd.to_datetime and the .dt accessors.

NaT == <<>>

IsLeap(y) == (y % 4 = 0 /\ y % 100 # 0) \/ y % 400 = 0

DaysInMonth(y, m) ==
    IF m = 2 THEN (IF IsLeap(y) THEN 29 ELSE 28)
    ELSE IF m \in {4, 6, 9, 11} THEN 30 ELSE 31

\* Leap years before year y in the Gregorian calendar.
LeapsBefore(y) == ((y - 1) \div 4) - ((y - 1) \div 100) + ((y - 1) \div 400)

\* Days from 2020-01-01 to the first day of year y.
DaysBeforeYear(y) == 365 * (y - 2020) + LeapsBefore(y) - LeapsBefore(2020)

\* Days from the first day of year y to the first day of its month m.
DaysBeforeMonth(y, m) ==
    <<0, 31, 59, 90, 120, 151, 181, 212, 243, 273, 304, 334>>[m]
        + (IF m > 2 /\ IsLeap(y) THEN 1 ELSE 0)

\* The timestamp of a calendar date, as days since 2020-01-01.
Timestamp(y, m, d) == DaysBeforeYear(y) + DaysBeforeMonth(y, m) + (d - 1)

YearOf(t) == CHOOSE y \in 2020..2023 : DaysBeforeYear(y) <= t /\ t < DaysBeforeYear(y + 1)
MonthOf(t) ==
    LET y == YearOf(t)
        n == t - DaysBeforeYear(y)
    IN CHOOSE m \in 1..12 :
          DaysBeforeMonth(y, m) <= n /\ n < DaysBeforeMonth(y, m) + DaysInMonth(y, m)
DayOf(t) == t - Timestamp(YearOf(t), MonthOf(t), 1) + 1

\* pd.to_datetime(..., errors="coerce") on one cell (line 43): a
\* year-month-day text naming a day of the calendar parses; the empty cell
\* and any other text become NaT.
to_datetime(cell) ==
    IF /\ Len(cell) = 3
       /\ cell[1] \in 2020..2022
       /\ cell[2] \in 1..12
       /\ cell[3] \in 1..DaysInMonth(cell[1], cell[2])
    THEN <<Timestamp(cell[1], cell[2], cell[3])>>
    ELSE NaT

----------------------------------------------------------------------------
\* The data frame: a sequence of rows, each an index label (idx) and a
\* function from column names to cells (val).

Column(d, col) == [i \in 1..Len(d) |-> d[i].val[col]]

\* A cell of a numeric column as pd.read_csv reads it: the empty cell is
\* NaN, a number is itself.
read_number(cell) == IF cell = <<>> THEN NaN ELSE <<cell[1], 1>>

\* pd.read_csv (line 29): one row per data line under a RangeIndex from 0,
\* one column per header name; date cells stay text.
read_csv(src) ==
    [i \in 1..Len(src.rows) |->
        [idx |-> i - 1,
         val |-> [c \in src.header |->
                    IF c \in {TEMP_COL, RAIN_COL} THEN read_number(src.rows[i][c])
                    ELSE src.rows[i][c]]]]

\* df[DATE_COL] = pd.to_datetime(df[DATE_COL], errors="coerce") (line 43).
CoerceDates(d) ==
    [i \in 1..Len(d) |->
        [d[i] EXCEPT !.val[DATE_COL] = to_datetime(d[i].val[DATE_COL])]]

\* dropna without its subset: a row with any missing cell goes.
dropna_any(d) ==
    LET Keep(r) ==
            /\ r.val[DATE_COL] # NaT
            /\ ~IsNaN(r.val[TEMP_COL])
            /\ ~IsNaN(r.val[RAIN_COL])
    IN SelectSeq(d, Keep)

\* df.dropna(subset=[DATE_COL]) (line 46).
dropna(d) == LET Keep(r) == r.val[DATE_COL] # NaT IN SelectSeq(d, Keep)

\* df[cols_needed] (line 50).
Project(d) ==
    [i \in 1..Len(d) |-> [d[i] EXCEPT !.val = [c \in cols_needed |-> d[i].val[c]]]]

\* df[col].fillna(v) (line 55): NaN cells become v, the others stay.
fillna(d, col, v) ==
    [i \in 1..Len(d) |->
        IF IsNaN(d[i].val[col]) THEN [d[i] EXCEPT !.val[col] = v] ELSE d[i]]

\* One pass of the loop of lines 53-55.
Impute(d, col) ==
    IF HasNaN(Column(d, col)) THEN fillna(d, col, pd_mean(Column(d, col))) ELSE d

DateOf(r) == r.val[DATE_COL][1]

IsSortedByDate(d) == \A i \in 1..(Len(d) - 1) : DateOf(d[i]) <= DateOf(d[i + 1])

Orderings(n) == {p \in [1..n -> 1..n] : \A i, j \in 1..n : i # j => p[i] # p[j]}

\* sort_values whose result is dropped: the rows stay as they came.
sort_values_discarded(d) == {d}

\* df.sort_values(DATE_COL) (line 58).  The call names no kind, so pandas
\* sorts with its default "quicksort", which promises ascending order and
\* nothing about rows with equal keys: every ascending arrangement of the
\* rows is a result the sort may give.
sort_values(d) ==
    {s \in {[i \in 1..Len(d) |-> d[p[i]]] : p \in Orderings(Len(d))} :
        IsSortedByDate(s)}

\* Date parts with the month counted from 0.
AddDateParts_month0(d) ==
    [i \in 1..Len(d) |->
        [d[i] EXCEPT !.val =
            [c \in (DOMAIN d[i].val) \cup {"Year", "Month", "Day"} |->
                CASE c = "Year" -> YearOf(DateOf(d[i]))
                  [] c = "Month" -> MonthOf(DateOf(d[i])) - 1
                  [] c = "Day" -> DayOf(DateOf(d[i]))
                  [] OTHER -> d[i].val[c]]]]

\* Lines 59-61: Year, Month, Day from the parsed date.
AddDateParts(d) ==
    [i \in 1..Len(d) |->
        [d[i] EXCEPT !.val =
            [c \in (DOMAIN d[i].val) \cup {"Year", "Month", "Day"} |->
                CASE c = "Year" -> YearOf(DateOf(d[i]))
                  [] c = "Month" -> MonthOf(DateOf(d[i]))
                  [] c = "Day" -> DayOf(DateOf(d[i]))
                  [] OTHER -> d[i].val[c]]]]

\* Lines 43-55: the table before it is sorted.
Unsorted(d) == Impute(Impute(Project(dropna(CoerceDates(d))), TEMP_COL), RAIN_COL)

----------------------------------------------------------------------------
\* Task 3: statistics and resampling.

\* The stats dictionary of lines 70-79 (the two standard deviations, which
\* are irrational, are left out; nothing below reads them).
Statistics(d) ==
    LET temp == Column(d, TEMP_COL)
        rain == Column(d, RAIN_COL)
    IN [temp_mean |-> np_mean(temp), temp_min |-> np_min(temp),
        temp_max |-> np_max(temp),
        rain_mean |-> np_mean(rain), rain_min |-> np_min(rain),
        rain_max |-> np_max(rain)]

NoStatistics ==
    [temp_mean |-> NaN, temp_min |-> NaN, temp_max |-> NaN,
     rain_mean |-> NaN, rain_min |-> NaN, rain_max |-> NaN]

\* .agg({TEMP_COL: ["mean", "min", "max"], RAIN_COL: "sum"}) on the rows of
\* one group, labelled k.
Agg(k, rows) ==
    [key |-> k,
     temp_mean |-> pd_mean(Column(rows, TEMP_COL)),
     temp_min |-> pd_min(Column(rows, TEMP_COL)),
     temp_max |-> pd_max(Column(rows, TEMP_COL)),
     rain_sum |-> pd_sum(Column(rows, RAIN_COL))]

SetMin(S) == CHOOSE x \in S : \A y \in S : x <= y
SetMax(S) == CHOOSE x \in S : \A y \in S : y <= x

\* The members of a set of numbers in ascending order.
RECURSIVE Ascending(_)
Ascending(S) ==
    IF S = {} THEN <<>> ELSE <<SetMin(S)>> \o Ascending(S \ {SetMin(S)})

Dates(d) == {DateOf(d[i]) : i \in 1..Len(d)}

\* Months counted from January 2020, and the last day of such a month.
MonthIndex(t) == (YearOf(t) - 2020) * 12 + (MonthOf(t) - 1)
MonthEnd(k) ==
    LET y == 2020 + (k \div 12)
        m == (k % 12) + 1
    IN Timestamp(y, m, DaysInMonth(y, m))
YearEnd(y) == Timestamp(y, 12, 31)

\* A grouping by date in place of the resampling: one bin per date that
\* occurs.
groupby_date(d) ==
    LET keys == Ascending(Dates(d))
    IN [k \in 1..Len(keys) |->
           LET In(r) == DateOf(r) = keys[k]
           IN Agg(keys[k], SelectSeq(d, In))]

\* resample("D") (lines 86-89): one bin per calendar day from the first
\* date to the last, whether or not a row falls in it.
resample_D(d) ==
    IF d = <<>> THEN <<>>
    ELSE LET lo == SetMin(Dates(d))
             hi == SetMax(Dates(d))
         IN [i \in 1..(hi - lo + 1) |->
                LET In(r) == DateOf(r) = lo + i - 1
                IN Agg(lo + i - 1, SelectSeq(d, In))]

\* Monthly bins that stop one month short of the last date.
resample_M_short(d) ==
    IF d = <<>> THEN <<>>
    ELSE LET lo == MonthIndex(SetMin(Dates(d)))
             hi == MonthIndex(SetMax(Dates(d)))
         IN [i \in 1..(hi - lo) |->
                LET In(r) == MonthIndex(DateOf(r)) = lo + i - 1
                IN Agg(MonthEnd(lo + i - 1), SelectSeq(d, In))]

\* resample("M") (lines 91-94): one bin per calendar month from the month
\* of the first date to the month of the last, labelled by the month's end.
resample_M(d) ==
    IF d = <<>> THEN <<>>
    ELSE LET lo == MonthIndex(SetMin(Dates(d)))
             hi == MonthIndex(SetMax(Dates(d)))
         IN [i \in 1..(hi - lo + 1) |->
                LET In(r) == MonthIndex(DateOf(r)) = lo + i - 1
                IN Agg(MonthEnd(lo + i - 1), SelectSeq(d, In))]

\* resample("Y") (lines 96-99): one bin per calendar year, labelled by the
\* year's end.
resample_Y(d) ==
    IF d = <<>> THEN <<>>
    ELSE LET lo == YearOf(SetMin(Dates(d)))
             hi == YearOf(SetMax(Dates(d)))
         IN [i \in 1..(hi - lo + 1) |->
                LET In(r) == YearOf(DateOf(r)) = lo + i - 1
                IN Agg(YearEnd(lo + i - 1), SelectSeq(d, In))]

----------------------------------------------------------------------------
\* Task 5: grouping.

\* df.groupby("Month").agg(...) (lines 149-152): one group per month number
\* that occurs, in ascending order.
groupby_month(d) ==
    LET keys == Ascending({d[i].val["Month"] : i \in 1..Len(d)})
    IN [k \in 1..Len(keys) |->
           LET In(r) == r.val["Month"] = keys[k]
           IN Agg(keys[k], SelectSeq(d, In))]

\* A season mapping that forgets December.
month_to_season_no_december(m) ==
    IF m \in {1, 2} THEN "Winter"
    ELSE IF m \in {3, 4, 5} THEN "Spring"
    ELSE IF m \in {6, 7, 8} THEN "Summer"
    ELSE "Autumn"

\* Lines 158-166.
month_to_season(m) ==
    IF m \in {12, 1, 2} THEN "Winter"
    ELSE IF m \in {3, 4, 5} THEN "Spring"
    ELSE IF m \in {6, 7, 8} THEN "Summer"
    ELSE "Autumn"

\* df["Season"] = df["Month"].apply(month_to_season) (line 168).
AddSeason(d) ==
    [i \in 1..Len(d) |->
        [d[i] EXCEPT !.val =
            [c \in (DOMAIN d[i].val) \cup {"Season"} |->
                IF c = "Season" THEN month_to_season(d[i].val["Month"])
                ELSE d[i].val[c]]]]

\* df.groupby("Season").agg({TEMP_COL: "mean", RAIN_COL: "sum"}) (lines
\* 170-173): one group per season that occurs, keys in sorted order.
groupby_season(d) ==
    LET Present(s) == \E i \in 1..Len(d) : d[i].val["Season"] = s
        keys == SelectSeq(<<"Autumn", "Spring", "Summer", "Winter">>, Present)
    IN [k \in 1..Len(keys) |->
           LET In(r) == r.val["Season"] = keys[k]
               rows == SelectSeq(d, In)
           IN [key |-> keys[k],
               temp_mean |-> pd_mean(Column(rows, TEMP_COL)),
               rain_sum |-> pd_sum(Column(rows, RAIN_COL))]]

----------------------------------------------------------------------------
\* Task 6: export.

\* A cell as df.to_csv writes it: NaN is the empty cell, a date is written
\* year-month-day, everything else is written as it is.
csv_cell(c, v) ==
    IF c = DATE_COL THEN <<YearOf(v[1]), MonthOf(v[1]), DayOf(v[1])>>
    ELSE IF c \in {TEMP_COL, RAIN_COL} THEN (IF IsNaN(v) THEN <<>> ELSE v)
    ELSE v

\* df.to_csv(clean_csv_path, index=False) (line 183): the rows in order,
\* every column, without the index.
to_csv(d) == [i \in 1..Len(d) |-> [c \in DOMAIN d[i].val |-> csv_cell(c, d[i].val[c])]]

\* "{:.2f}".format(x): x in hundredths, rounded half to even; NaN is "nan".
Format2f(x) ==
    IF IsNaN(x) THEN [nan |-> TRUE, cents |-> 0]
    ELSE LET q == (100 * x[1]) \div x[2]
             r == (100 * x[1]) % x[2]
         IN [nan |-> FALSE,
             cents |-> IF 2 * r > x[2] \/ (2 * r = x[2] /\ q % 2 = 1)
                       THEN q + 1 ELSE q]

\* DataFrame.head(): the first five rows.
head(s) == SubSeq(s, 1, IF Len(s) < 5 THEN Len(s) ELSE 5)

\* The summary of lines 186-192.
Summary(st, gm) ==
    [temp_mean |-> Format2f(st.temp_mean),
     rain_mean |-> Format2f(st.rain_mean),
     preview |-> head(gm)]

NoSummary == [temp_mean |-> Format2f(NaN), rain_mean |-> Format2f(NaN), preview |-> <<>>]

----------------------------------------------------------------------------
\* The input tables of the model.

RawRow(d, t, r) ==
    [c \in cols_needed \cup {EXTRA_COL} |->
        CASE c = DATE_COL -> d
          [] c = TEMP_COL -> t
          [] c = RAIN_COL -> r
          [] OTHER -> "City"]

\* Rows that vary the two measurements: a date that parses or one that
\* does not, and each measurement present or missing.
NumericRows ==
    {RawRow(d, m[1], m[2]) :
        d \in {<<2020, 12, 30>>, <<2021, 2, 29>>},
        m \in {<<<<>>, <<2>>>>, <<<<10>>, <<>>>>, <<<<20>>, <<1>>>>, <<<<>>, <<>>>>}}

\* Rows that vary the date: equal dates, dates a day apart, two days of one
\* month, two months and two years, an empty date and a day that is not in
\* the calendar.
DatedRows ==
    {RawRow(d, m[1], m[2]) :
        d \in {<<>>, <<2021, 2, 29>>, <<2020, 12, 29>>, <<2020, 12, 31>>, <<2021, 1, 1>>},
        m \in {<<<<10>>, <<1>>>>, <<<<20>>, <<3>>>>}}

\* One row in each month of a year, and a row without a date; tables of
\* these rows span up to eleven months, and are one row shorter for it.
MonthRows ==
    {RawRow(<<2020, m, 15>>, <<10>>, <<1>>) : m \in 1..12}
        \cup {RawRow(<<>>, <<10>>, <<1>>)}

SeqsUpTo(S, n) == UNION {[1..k -> S] : k \in 0..n}

Tables ==
    SeqsUpTo(NumericRows, MaxRows) \cup SeqsUpTo(DatedRows, MaxRows)
        \cup SeqsUpTo(MonthRows, MaxRows - 1)

\* What the run finds at DATA_PATH: no readable file, a file that is not a
\* delimited table, a table lacking some of the columns, or a table with
\* all of them.
Sources ==
    {[kind |-> k, header |-> {}, rows |-> <<>>] : k \in {"unreadable", "malformed"}}
    \cup {[kind |-> "table", header |-> h, rows |-> <<>>] :
            h \in (SUBSET (cols_needed \cup {EXTRA_COL})) \ {cols_needed \cup {EXTRA_COL}}}
    \cup {[kind |-> "table", header |-> cols_needed \cup {EXTRA_COL}, rows |-> t] :
            t \in Tables}

----------------------------------------------------------------------------
\* The run.

NoFiles == [f \in OutputFiles |-> "absent"]

Init ==
    /\ pc = "load"
    /\ err = "none"
    /\ source \in Sources
    /\ df = <<>>
    /\ stats = NoStatistics
    /\ daily = <<>>
    /\ monthly = <<>>
    /\ yearly = <<>>
    /\ grouped_month = <<>>
    /\ season_group = <<>>
    /\ defined = {}
    /\ files = NoFiles
    /\ exported = <<>>
    /\ report = NoSummary

\* An uncaught exception ends the run where it is raised.
Raise(e) == pc' = "failed" /\ err' = e

\* Task 1 (line 29).
Load ==
    /\ pc = "load"
    /\ source.kind = "table"
    /\ df' = read_csv(source)
    /\ defined' = defined \cup {"df"}
    /\ pc' = "clean"
    /\ UNCHANGED <<err, source, stats, daily, monthly, yearly, grouped_month,
                   season_group, files, exported, report>>

\* pd.read_csv raises on a missing file and on content it cannot parse.
LoadFail ==
    /\ pc = "load"
    /\ source.kind # "table"
    /\ Raise(IF source.kind = "unreadable" THEN "FileNotFoundError" ELSE "ParserError")
    /\ UNCHANGED <<source, df, stats, daily, monthly, yearly, grouped_month,
                   season_group, defined, files, exported, report>>

\* Task 2 (lines 43-61).
Clean ==
    /\ pc = "clean"
    /\ cols_needed \subseteq source.header
    /\ \E s \in sort_values(Unsorted(df)) : df' = AddDateParts(s)
    /\ pc' = "stats"
    /\ UNCHANGED <<err, source, stats, daily, monthly, yearly, grouped_month,
                   season_group, defined, files, exported, report>>

\* df[DATE_COL] (line 43) and df[cols_needed] (line 50) raise KeyError when
\* a column is not in the table.
CleanFail ==
    /\ pc = "clean"
    /\ ~(cols_needed \subseteq source.header)
    /\ Raise("KeyError")
    /\ UNCHANGED <<source, df, stats, daily, monthly, yearly, grouped_month,
                   season_group, defined, files, exported, report>>

\* Task 3 (lines 67-99).
Stats ==
    /\ pc = "stats"
    /\ df # <<>>
    /\ stats' = Statistics(df)
    /\ daily' = resample_D(df)
    /\ monthly' = resample_M(df)
    /\ yearly' = resample_Y(df)
    /\ defined' = defined \cup {"stats", "daily", "monthly", "yearly"}
    /\ pc' = "plot_daily"
    /\ UNCHANGED <<err, source, df, grouped_month, season_group, files,
                   exported, report>>

\* np.min of an empty array raises ValueError (line 72).
StatsFail ==
    /\ pc = "stats"
    /\ df = <<>>
    /\ Raise("ValueError")
    /\ UNCHANGED <<source, df, stats, daily, monthly, yearly, grouped_month,
                   season_group, defined, files, exported, report>>

\* Task 4: the three savefig calls (lines 116, 127, 142).
PlotDaily ==
    /\ pc = "plot_daily"
    /\ files' = [files EXCEPT ![DAILY_PNG] = "written"]
    /\ pc' = "plot_monthly"
    /\ UNCHANGED <<err, source, df, stats, daily, monthly, yearly, grouped_month,
                   season_group, defined, exported, report>>

PlotMonthly ==
    /\ pc = "plot_monthly"
    /\ files' = [files EXCEPT ![MONTHLY_PNG] = "written"]
    /\ pc' = "plot_combined"
    /\ UNCHANGED <<err, source, df, stats, daily, monthly, yearly, grouped_month,
                   season_group, defined, exported, report>>

PlotCombined ==
    /\ pc = "plot_combined"
    /\ files' = [files EXCEPT ![COMBINED_PNG] = "written"]
    /\ pc' = "group"
    /\ UNCHANGED <<err, source, df, stats, daily, monthly, yearly, grouped_month,
                   season_group, defined, exported, report>>

\* Task 5 without its season lines (168-173).
Group_without_season ==
    /\ pc = "group"
    /\ grouped_month' = groupby_month(df)
    /\ defined' = defined \cup {"grouped_month"}
    /\ pc' = "export"
    /\ UNCHANGED <<err, source, df, stats, daily, monthly, yearly, season_group,
                   files, exported, report>>

\* Task 5 (lines 149-176).
Group ==
    /\ pc = "group"
    /\ grouped_month' = groupby_month(df)
    /\ df' = AddSeason(df)
    /\ season_group' = groupby_season(df')
    /\ defined' = defined \cup {"grouped_month", "season_group"}
    /\ pc' = "export"
    /\ UNCHANGED <<err, source, stats, daily, monthly, yearly, files, exported,
                   report>>

\* Task 6: df.to_csv (line 183).
Export ==
    /\ pc = "export"
    /\ exported' = to_csv(df)
    /\ files' = [files EXCEPT ![CLEAN_CSV] = "written"]
    /\ pc' = "report"
    /\ UNCHANGED <<err, source, df, stats, daily, monthly, yearly, grouped_month,
                   season_group, defined, report>>

\* Task 6: the summary report (lines 186-196).
Report ==
    /\ pc = "report"
    /\ report' = Summary(stats, grouped_month)
    /\ files' = [files EXCEPT ![REPORT_TXT] = "written"]
    /\ pc' = "done"
    /\ UNCHANGED <<err, source, df, stats, daily, monthly, yearly, grouped_month,
                   season_group, defined, exported>>

\* The file each writing step writes.
Target(p) ==
    CASE p = "plot_daily" -> DAILY_PNG
      [] p = "plot_monthly" -> MONTHLY_PNG
      [] p = "plot_combined" -> COMBINED_PNG
      [] p = "export" -> CLEAN_CSV
      [] p = "report" -> REPORT_TXT

WritingSteps == {"plot_daily", "plot_monthly", "plot_combined", "export", "report"}

\* A write the file system refuses raises OSError: the file was not opened
\* (absent) or was opened and not completed (partial).
WriteFail ==
    /\ pc \in WritingSteps
    /\ \E left \in {"absent", "partial"} :
          files' = [files EXCEPT ![Target(pc)] = left]
    /\ Raise("OSError")
    /\ UNCHANGED <<source, df, stats, daily, monthly, yearly, grouped_month,
                   season_group, defined, exported, report>>

Next ==
    \/ Load
    \/ LoadFail
    \/ Clean
    \/ CleanFail
    \/ Stats
    \/ StatsFail
    \/ PlotDaily
    \/ PlotMonthly
    \/ PlotCombined
    \/ Group
    \/ Export
    \/ Report
    \/ WriteFail

Spec == Init /\ [][Next]_vars

----------------------------------------------------------------------------
\* What the claims speak of, read off the input and the state.

\* Task 2 has run on the table.
Cleaned == pc \notin {"load", "clean"} /\ err \notin {"FileNotFoundError", "ParserError", "KeyError"}

\* The input lines (counted from 1) whose date parses, and the others.
Parseable == {i \in 1..Len(source.rows) : to_datetime(source.rows[i][DATE_COL]) # NaT}
Unparseable == (1..Len(source.rows)) \ Parseable

\* The input line a row of the table came from.
Line(r) == r.idx + 1

\* The cell of a numeric column on an input line, as a number or NaN.
InputValue(i, col) == read_number(source.rows[i][col])

\* The input lines with a parseable date and a value in the column.
Observed(col) == {i \in Parseable : ~IsNaN(InputValue(i, col))}
Missing(col) == Parseable \ Observed(col)

RECURSIVE SumOver(_, _)
SumOver(S, col) ==
    IF S = {} THEN Zero
    ELSE LET i == CHOOSE x \in S : TRUE
         IN RAdd(InputValue(i, col), SumOver(S \ {i}, col))

\* The arithmetic mean of the observed values of a column.
ObservedMean(col) == RDivInt(SumOver(Observed(col), col), Cardinality(Observed(col)))

\* C1: the cleaning step removes exactly the rows whose date cannot be
\* parsed: every line with a parseable date is a row of the cleaned table,
\* once, with that date; no line with an unparseable date is; the row count
\* is the input row count less the unparseable lines; no cleaned row has a
\* null date.
C1_DateDrop ==
    Cleaned =>
        /\ {Line(df[i]) : i \in 1..Len(df)} = Parseable
        /\ Len(df) = Len(source.rows) - Cardinality(Unparseable)
        /\ \A i \in 1..Len(df) :
              /\ df[i].val[DATE_COL] # NaT
              /\ df[i].val[DATE_COL] = to_datetime(source.rows[Line(df[i])][DATE_COL])

\* A cleaned table that kept a row and lost another.
C1_Witness == Cleaned /\ Parseable # {} /\ Unparseable # {} /\ Len(df) = Cardinality(Parseable)

\* C2: in each numeric column with a null among the surviving rows, every
\* null becomes the mean of the column's non-null values over the surviving
\* rows, every other value stays, and no null is left.
C2_Imputation ==
    Cleaned =>
        \A col \in {TEMP_COL, RAIN_COL} :
            Missing(col) # {} =>
                \A i \in 1..Len(df) :
                    /\ Line(df[i]) \in Missing(col) => df[i].val[col] = ObservedMean(col)
                    /\ Line(df[i]) \in Observed(col) =>
                          df[i].val[col] = InputValue(Line(df[i]), col)
                    /\ ~IsNaN(df[i].val[col])

\* C3: a numeric column with no value among the rows being cleaned ends
\* the run with InsufficientDataError: the run does not go on, and no table
\* or file holding a null of that column is produced.
C3_InsufficientData ==
    \A col \in {TEMP_COL, RAIN_COL} :
        (Cleaned /\ Parseable # {} /\ Observed(col) = {}) =>
            /\ pc = "failed"
            /\ err = "InsufficientDataError"
            /\ files = NoFiles

\* Task 3 has run.
Resampled == "daily" \in defined

Keys(buckets) == {buckets[i].key : i \in 1..Len(buckets)}

\* The rows of the cleaned table dated t.
RowsOn(t) == LET On(r) == DateOf(r) = t IN SelectSeq(df, On)

\* C4 as the spec states it: the daily bucket keys are exactly the dates
\* that occur in the cleaned table, so a day carried by no record has no
\* bucket.
C4_NoGapFilling == Resampled => Keys(daily) = Dates(df)

\* C4 as the code has it: the daily buckets are the calendar days from the
\* earliest record date to the latest, each once and in order, so a day in
\* between that no record carries has a bucket too, with precipitation sum
\* 0 and no temperature mean, min or max; all records sharing a date fall
\* into the one bucket of that date.
C4_DailyBuckets ==
    Resampled =>
        /\ Keys(daily) = SetMin(Dates(df))..SetMax(Dates(df))
        /\ \A i \in 1..(Len(daily) - 1) : daily[i + 1].key = daily[i].key + 1
        /\ \A i \in 1..Len(daily) :
              /\ daily[i] = Agg(daily[i].key, RowsOn(daily[i].key))
              /\ RowsOn(daily[i].key) = <<>> =>
                    /\ daily[i].rain_sum = Zero
                    /\ IsNaN(daily[i].temp_mean)
                    /\ IsNaN(daily[i].temp_min)
                    /\ IsNaN(daily[i].temp_max)

\* Daily buckets with a day no record carries next to a day two records
\* share.
C4_Witness ==
    /\ Resampled
    /\ \E i \in 1..Len(daily) : RowsOn(daily[i].key) = <<>>
    /\ \E i \in 1..Len(daily) : Len(RowsOn(daily[i].key)) >= 2

\* C5 as the spec states it: the cleaned table is the stable ascending sort
\* by date of the surviving rows (rows of equal date keep their input
\* order, which shows wherever two such rows differ in a cell), and stays
\* so through the later steps and the export.
C5_StableSort ==
    Cleaned =>
        /\ IsSortedByDate(df)
        /\ \A i, j \in 1..Len(df) :
              (i < j /\ DateOf(df[i]) = DateOf(df[j])) =>
                  (df[i].idx < df[j].idx \/ df[i].val = df[j].val)
        /\ files[CLEAN_CSV] = "written" =>
              /\ Len(exported) = Len(df)
              /\ \A i \in 1..Len(df) :
                    exported[i][DATE_COL] = source.rows[Line(df[i])][DATE_COL]

\* The order of the rows of a table, as the input lines they came from.
Order(d) == [i \in 1..Len(d) |-> Line(d[i])]

\* C5 as the code has it, state by state: the cleaned table is an ascending arrangement by
\* date of the surviving rows, each once (the order of rows of equal date is
\* whatever the sort gives), and the later steps and the export keep the
\* order the sort gave.
C5_SortInv ==
    Cleaned =>
        /\ IsSortedByDate(df)
        /\ {Order(df)[i] : i \in 1..Len(df)} = Parseable
        /\ \A i, j \in 1..Len(df) : i # j => df[i].idx # df[j].idx
        /\ files[CLEAN_CSV] = "written" =>
              /\ Len(exported) = Len(df)
              /\ \A i \in 1..Len(df) :
                    exported[i][DATE_COL] = source.rows[Line(df[i])][DATE_COL]

\* C5, amended: the ascending arrangement above in every state, and no
\* step after the cleaning reorders the rows.
C5_Sorted == []C5_SortInv /\ [][Cleaned => Order(df') = Order(df)]_vars

\* A cleaned table whose rows came in another order than they stand in.
C5_Witness ==
    /\ pc = "done"
    /\ \E i, j \in 1..Len(df) : i < j /\ df[i].idx > df[j].idx /\ DateOf(df[i]) < DateOf(df[j])

RECURSIVE RainBetween(_, _, _)
RainBetween(buckets, lo, hi) ==
    IF lo > hi THEN Zero
    ELSE IF lo = hi THEN buckets[lo].rain_sum
    ELSE LET mid == (lo + hi) \div 2
         IN RAdd(RainBetween(buckets, lo, mid), RainBetween(buckets, mid + 1, hi))

\* The precipitation sums of a sequence of buckets, added up.
RainTotal(buckets) == RainBetween(buckets, 1, Len(buckets))

\* The precipitation over the rows of the cleaned table that hold one.
TableRain == SeqSum(SelectSeq(Column(df, RAIN_COL), NotNaN))

\* C6: precipitation totals agree across granularities: the daily sums of
\* the days of a month add up to the month's sum, the monthly sums of a
\* year to the year's sum, and the daily, monthly and yearly sums each add
\* up to the precipitation of the whole cleaned table.
C6_RainTotals ==
    Resampled =>
        /\ \A i \in 1..Len(monthly) :
              LET last == monthly[i].key
                  first == Timestamp(YearOf(last), MonthOf(last), 1)
                  InMonth(b) == first <= b.key /\ b.key <= last
              IN RainTotal(SelectSeq(daily, InMonth)) = monthly[i].rain_sum
        /\ \A i \in 1..Len(yearly) :
              LET last == yearly[i].key
                  first == Timestamp(YearOf(last), 1, 1)
                  InYear(b) == first <= b.key /\ b.key <= last
              IN RainTotal(SelectSeq(monthly, InYear)) = yearly[i].rain_sum
        /\ RainTotal(daily) = TableRain
        /\ RainTotal(monthly) = TableRain
        /\ RainTotal(yearly) = TableRain

\* Rain on two days of one month, in two months of one year and in two
\* years.
C6_Witness ==
    /\ Resampled
    /\ Len(yearly) = 2
    /\ \A i \in 1..Len(yearly) : yearly[i].rain_sum # Zero
    /\ \E i, j \in 1..Len(daily) :
          /\ i # j
          /\ MonthIndex(daily[i].key) = MonthIndex(daily[j].key)
          /\ daily[i].rain_sum # Zero
          /\ daily[j].rain_sum # Zero

\* Task 5 has run: the table has its Season column.
HasSeason == "season_group" \in defined

\* The season of each month, January to December, as the spec lists them.
SeasonTable ==
    <<"Winter", "Winter", "Spring", "Spring", "Spring", "Summer",
      "Summer", "Summer", "Autumn", "Autumn", "Autumn", "Winter">>

\* C7: month_to_season gives every month 1..12 exactly its season of the
\* fixed mapping, on its own and on every row of the table.
C7_SeasonMapping ==
    /\ \A m \in 1..12 : month_to_season(m) = SeasonTable[m]
    /\ HasSeason =>
          \A i \in 1..Len(df) :
              /\ df[i].val["Month"] \in 1..12
              /\ df[i].val["Season"] = SeasonTable[df[i].val["Month"]]

\* A December row in Winter: the month that wraps around the year.
C7_Witness ==
    /\ HasSeason
    /\ \E i \in 1..Len(df) : df[i].val["Month"] = 12 /\ df[i].val["Season"] = "Winter"

\* C8: the exported table holds every cleaned record once and nothing else;
\* each exported row carries the year, month and day of its own date and
\* the season of its month; the seasons on the rows are the keys of the
\* season grouping.
C8_Export ==
    files[CLEAN_CSV] = "written" =>
        /\ Len(exported) = Cardinality(Parseable)
        /\ {Line(df[i]) : i \in 1..Len(df)} = Parseable
        /\ Len(exported) = Len(df)
        /\ \A i \in 1..Len(exported) :
              LET raw == source.rows[Line(df[i])]
                  row == exported[i]
              IN /\ DOMAIN row = cols_needed \cup {"Year", "Month", "Day", "Season"}
                 /\ row[DATE_COL] = raw[DATE_COL]
                 /\ row["Year"] = raw[DATE_COL][1]
                 /\ row["Month"] = raw[DATE_COL][2]
                 /\ row["Day"] = raw[DATE_COL][3]
                 /\ row["Season"] = SeasonTable[row["Month"]]
                 /\ \A col \in {TEMP_COL, RAIN_COL} :
                       row[col] = IF IsNaN(df[i].val[col]) THEN <<>> ELSE df[i].val[col]
        /\ Keys(season_group) = {exported[i]["Season"] : i \in 1..Len(exported)}

\* An export of rows of two seasons that came in another order than they
\* are written in.
C8_Witness ==
    /\ files[CLEAN_CSV] = "written"
    /\ Cardinality(Keys(season_group)) = 2
    /\ Len(exported) = 2
    /\ df[1].idx > df[2].idx

\* C9: a run that ends in a fatal condition has written neither the
\* cleaned-table export nor the summary report, fully or partly.
C9_NoPartialOutput == pc = "failed" => \A f \in FinalFiles : files[f] = "absent"

Touched(F) == \E f \in F : files[f] # "absent"

AllAggregates == {"stats", "daily", "monthly", "yearly", "grouped_month", "season_group"}

\* C10 as the spec states it: nothing is written (no chart, export or
\* report) before the cleaned table is complete with its season field and
\* every aggregate is computed, and the table is not modified once an
\* output has been written.
C10_StrictStages ==
    /\ [](Touched(OutputFiles) => (HasSeason /\ AllAggregates \subseteq defined))
    /\ [][Touched(OutputFiles) => df' = df]_vars

\* C10 as the code has it: the charts are written once the table is cleaned
\* and the global statistics and the daily, monthly and yearly buckets are
\* computed, before the season field and the calendar-month and season
\* groupings; the export and the report are written only after the table
\* is complete with its season field and every aggregate is computed, and
\* the table is not modified once the export or the report has been
\* written.
C10_Stages ==
    /\ [](/\ Touched(ChartFiles) =>
                (Cleaned /\ {"stats", "daily", "monthly", "yearly"} \subseteq defined)
          /\ Touched(FinalFiles) => (HasSeason /\ AllAggregates \subseteq defined)
          /\ HasSeason => \A f \in ChartFiles : files[f] = "written")
    /\ [][Touched(FinalFiles) => df' = df]_vars

\* The run has written everything.
C10_Witness == pc = "done" /\ \A f \in OutputFiles : files[f] = "written"

====
